---- MODULE Spec2Model ----
(***************************************************************************)
(* Word-to-PowerPoint conversion: the section parser of                    *)
(* document_parser.py and the conversion pipeline of document_converter.py *)
(* and slide_manager.py.                                                   *)
(*                                                                         *)
(* Text is a sequence of one-character strings, so that strip(), the       *)
(* header pattern and int() are computed and not assumed.  Python's None   *)
(* is the empty sequence <<>> where a value is optional, a present value v *)
(* is <<v>>.                                                               *)
(***************************************************************************)
EXTENDS Integers, Sequences, FiniteSets, TLC

VARIABLES
    \* ---- WordDocumentParser._parse_numbered_sections ----
    ppc,              \* "idle" | "loop" | "returned"
    paragraphs,       \* doc.paragraphs read so far (the input stream)
    psections,        \* the local list `sections`
    current_section,  \* <<>> for None, <<section>> otherwise
    parsed            \* the returned list (<<>> until the return)

pvars == <<ppc, paragraphs, psections, current_section, parsed>>

VARIABLES
    \* ---- DocumentConverter.convert_document / WordToPowerPointStrategy.convert ----
    pc,               \* the statement the conversion is at
    progress_callback,\* "none" | "returns" | "may_raise": the caller's argument
    calls,            \* the invocations of progress_callback, in order
    trace,            \* the stages entered, in order
    sections,         \* word_data['sections']
    deck,             \* prs.slides, <<>> before the template is loaded
    layout,           \* template_slide.slide_layout: its placeholder indices
    saved,            \* the decks written by prs.save, in order
    result,           \* <<>> until convert_document returns, then <<record>>
    \* ---- SlideManager.replace_slides_with_sections ----
    i,                \* sections handled so far by the for loop
    slides_created,   \* the local counter
    rresult,          \* the dict `result` of replace_slides_with_sections
    fault,            \* per section handled, what its iteration raised ("none" if nothing)
    \* ---- history ----
    template_file,    \* <<>>, or <<[slide, slides]>>: the template file as loaded
    fatal             \* "none", or the step of convert_document that raised

cvars == <<pc, progress_callback, calls, trace, sections, deck, layout, saved,
           result, i, slides_created, rresult, fault, template_file, fatal>>

VARIABLES
    \* ---- one operation on shapes: a format copy, a table copy, a slide clone ----
    shape_op,         \* "idle" | "ready" | the operation applied
    shape_source,     \* its source: a shape, a table, the shapes of a slide
    shape_target,     \* its target as it was before the operation
    shape_out,        \* its target as the operation has left it so far
    cursor            \* source shapes visited so far by the clone loop

svars == <<shape_op, shape_source, shape_target, shape_out, cursor>>

VARIABLES
    \* ---- the injection of one section into the primary shape of its slide ----
    render_pc,        \* "idle" | "ready" | "formatted" | "basic" | "return" | "done"
    render_section,   \* the section injected, <<>> before
    main_text_shape,  \* the text frame of the primary shape: paragraphs of runs
    content_idx,      \* content lines rendered so far by the formatted pass
    modes,            \* the rendering passes entered, and "raise" after one that raised
    render_created,   \* what the iteration adds to slides_created
    render_skipped    \* what the iteration appends to skipped_sections

rvars == <<render_pc, render_section, main_text_shape, content_idx, modes,
           render_created, render_skipped>>

vars == <<pvars, cvars, svars, rvars>>

\* no injection is under way
RenderIdle ==
    /\ render_pc = "idle"
    /\ render_section = <<>>
    /\ main_text_shape = <<>>
    /\ content_idx = 0
    /\ modes = <<>>
    /\ render_created = 0
    /\ render_skipped = <<>>

\* no shape operation is under way
ShapeIdle ==
    /\ shape_op = "idle"
    /\ shape_source = <<>>
    /\ shape_target = <<>>
    /\ shape_out = <<>>
    /\ cursor = 0

-----------------------------------------------------------------------------
(* Bounds *)

MaxParas == 3

\* paragraphs of the document converted, slides of the template deck
MaxDocParas == 3

MaxTemplateSlides == 2

-----------------------------------------------------------------------------
(* Text *)

Digits == {"0", "1", "2", "3", "4", "5", "6", "7", "8", "9"}

\* whitespace of str.strip() and of \s: a blank, a line break
IsSpace(c) == c \in {" ", "\n"}

IsDigit(c) == c \in Digits

DigitVal(c) ==
    CASE c = "0" -> 0 [] c = "1" -> 1 [] c = "2" -> 2 [] c = "3" -> 3
      [] c = "4" -> 4 [] c = "5" -> 5 [] c = "6" -> 6 [] c = "7" -> 7
      [] c = "8" -> 8 [] c = "9" -> 9

\* s without its first n characters
Drop(s, n) == SubSeq(s, n + 1, Len(s))

\* number of leading characters of s that satisfy the class
RECURSIVE LeadingSpaces(_)
LeadingSpaces(s) ==
    IF s # <<>> /\ IsSpace(Head(s)) THEN 1 + LeadingSpaces(Tail(s)) ELSE 0

RECURSIVE TrailingSpaces(_)
TrailingSpaces(s) ==
    IF s # <<>> /\ IsSpace(s[Len(s)])
    THEN 1 + TrailingSpaces(SubSeq(s, 1, Len(s) - 1))
    ELSE 0

RECURSIVE LeadingDigits(_)
LeadingDigits(s) ==
    IF s # <<>> /\ IsDigit(Head(s)) THEN 1 + LeadingDigits(Tail(s)) ELSE 0

\* (mutant) the text is taken as it is
strip_Identity(s) == s

\* str.strip()
strip(s) ==
    LET l == LeadingSpaces(s)
    IN  IF l = Len(s) THEN <<>>
        ELSE SubSeq(s, l + 1, Len(s) - TrailingSpaces(s))

\* int() of a string of decimal digits
RECURSIVE int(_)
int(s) ==
    IF s = <<>> THEN 0
    ELSE 10 * int(SubSeq(s, 1, Len(s) - 1)) + DigitVal(s[Len(s)])

\* the longest prefix of s without a line break: what (.*) matches
RECURSIVE UpToLineBreak(_)
UpToLineBreak(s) ==
    IF s = <<>> \/ Head(s) = "\n" THEN <<>>
    ELSE <<Head(s)>> \o UpToLineBreak(Tail(s))

\* (mutant) the whitespace after the period stays in the title
number_pattern_match_KeepSpace(text) ==
    LET d == LeadingDigits(text)
    IN  IF d >= 1 /\ d < Len(text) /\ text[d + 1] = "."
        THEN <<[g1 |-> SubSeq(text, 1, d),
                g2 |-> UpToLineBreak(Drop(text, d + 1))]>>
        ELSE <<>>

\* number_pattern = re.compile(r'^(\d+)\.\s*(.*)'); number_pattern.match(text)
\* <<>> for no match, <<[g1, g2]>> for a match with its two groups
number_pattern_match(text) ==
    LET d == LeadingDigits(text)
    IN  IF d >= 1 /\ d < Len(text) /\ text[d + 1] = "."
        THEN LET rest == Drop(text, d + 1)
             IN  <<[g1 |-> SubSeq(text, 1, d),
                    g2 |-> UpToLineBreak(Drop(rest, LeadingSpaces(rest)))]>>
        ELSE <<>>

-----------------------------------------------------------------------------
(* Input documents *)

\* the title of the implicit section, the literal of document_parser.py:181
PreambleTitle == <<"Q", "Y">>

\* paragraph texts fed to the parser: blank, whitespace only, plain text,
\* text with surrounding whitespace, headers with and without title, with
\* repeated and decreasing numbers, near-headers, a header paragraph that
\* holds a line break, and a header numbered 0
Lines ==
    { <<>>,
      <<" ">>,
      <<"a">>,
      <<" ", "b", " ">>,
      <<"1", ".", "a">>,
      <<"1", ".">>,
      <<"2", ".", " ", "b">>,
      <<" ", "2", ".", "a">>,
      <<"1", "a">>,
      <<"1", ".", "a", "\n", "b">>,
      <<"0", ".">> }

\* the runs of a paragraph of that text: a text of three characters or more
\* is split into a bold run and a plain one
RunsOf(line) ==
    IF line = <<>> THEN <<>>
    ELSE IF Len(line) < 3
    THEN <<[text |-> line, bold |-> <<>>]>>
    ELSE <<[text |-> SubSeq(line, 1, 2), bold |-> <<TRUE>>],
           [text |-> Drop(line, 2), bold |-> <<>>]>>

\* a docx paragraph: its text is the concatenation of its runs' texts;
\* readable is the number of leading runs whose font can be read
Paragraph(line) ==
    [text |-> line, runs |-> RunsOf(line), readable |-> Len(RunsOf(line))]

\* a paragraph whose first run raises when its font is read
UnreadableParagraph == [Paragraph(<<"a">>) EXCEPT !.readable = 0]

Paragraphs == { Paragraph(l) : l \in Lines } \cup {UnreadableParagraph}

\* FormatHandler.extract_word_formatting: one record per run; an error
\* while reading a run is logged and ends the loop with the records so far
extract_word_formatting(paragraph) ==
    [k \in 1..paragraph.readable |->
        [text |-> paragraph.runs[k].text,
         font_bold |-> paragraph.runs[k].bold]]

-----------------------------------------------------------------------------
(* WordDocumentParser._parse_numbered_sections *)

\* lines 162-168: the section a header line opens
HeaderSection(match, text, paragraph_formatting) ==
    [number |-> int(match.g1),
     title |-> match.g2,
     content |-> <<text>>,
     text_only |-> match.g2,
     formatting |-> <<paragraph_formatting>>]

\* (mutant) the line's runs are not recorded
AppendLine_NoFormatting(cur, text, paragraph_formatting) ==
    [cur EXCEPT
        !.content = Append(@, text),
        !.text_only = IF @ # <<>> THEN @ \o <<"\n">> \o text ELSE text]

\* (mutant) the line is appended to text_only without a separator
AppendLine_NoSeparator(cur, text, paragraph_formatting) ==
    [cur EXCEPT
        !.content = Append(@, text),
        !.formatting = Append(@, paragraph_formatting),
        !.text_only = @ \o text]

\* lines 171-176: a non-header line added to the open section
AppendLine(cur, text, paragraph_formatting) ==
    [cur EXCEPT
        !.content = Append(@, text),
        !.formatting = Append(@, paragraph_formatting),
        !.text_only = IF @ # <<>> THEN @ \o <<"\n">> \o text ELSE text]

\* (mutant) the implicit section starts without the line that opened it
PreambleSection_Empty(text, paragraph_formatting) ==
    [number |-> 0,
     title |-> PreambleTitle,
     content |-> <<>>,
     text_only |-> text,
     formatting |-> <<>>]

\* lines 179-185: the implicit section of text that precedes every header
PreambleSection(text, paragraph_formatting) ==
    [number |-> 0,
     title |-> PreambleTitle,
     content |-> <<text>>,
     text_only |-> text,
     formatting |-> <<paragraph_formatting>>]

\* lines 155-156: the open section, if any, is pushed when a header is met
PushOpen(st) ==
    IF st.current_section # <<>>
    THEN Append(st.sections, st.current_section[1])
    ELSE st.sections

\* the body of the for loop for one paragraph, on the locals
\* st = [sections, current_section]
ParseParagraph(st, paragraph) ==
    LET text == strip(paragraph.text)
        paragraph_formatting == extract_word_formatting(paragraph)
        match == number_pattern_match(text)
    IN  IF text = <<>> THEN st
        ELSE IF match # <<>>
        THEN [sections |-> PushOpen(st),
              current_section |->
                 <<HeaderSection(match[1], text, paragraph_formatting)>>]
        ELSE IF st.current_section # <<>>
        THEN [sections |-> st.sections,
              current_section |->
                 <<AppendLine(st.current_section[1], text,
                              paragraph_formatting)>>]
        ELSE [sections |-> st.sections,
              current_section |->
                 <<PreambleSection(text, paragraph_formatting)>>]

\* (mutant) the open section is not flushed at end of input
ParseFlush_NoFlush(st) == st.sections

\* lines 188-191: flush the open section and return
ParseFlush(st) ==
    IF st.current_section # <<>>
    THEN Append(st.sections, st.current_section[1])
    ELSE st.sections

\* the whole function on a paragraph list
RECURSIVE ParseLoop(_, _)
ParseLoop(st, ps) ==
    IF ps = <<>> THEN st ELSE ParseLoop(ParseParagraph(st, Head(ps)), Tail(ps))

_parse_numbered_sections(ps) ==
    ParseFlush(ParseLoop([sections |-> <<>>, current_section |-> <<>>], ps))

\* ---- the parser run as a state machine, one paragraph per step ----

ConverterIdle ==
    /\ pc = "idle"
    /\ progress_callback = "none"
    /\ calls = <<>>
    /\ trace = <<>>
    /\ sections = <<>>
    /\ deck = <<>>
    /\ layout = <<>>
    /\ saved = <<>>
    /\ result = <<>>
    /\ i = 0
    /\ slides_created = 0
    /\ rresult = <<>>
    /\ fault = <<>>
    /\ template_file = <<>>
    /\ fatal = "none"

ParserInit ==
    /\ ppc = "loop"
    /\ paragraphs = <<>>
    /\ psections = <<>>
    /\ current_section = <<>>
    /\ parsed = <<>>
    /\ ConverterIdle
    /\ ShapeIdle
    /\ RenderIdle

\* one iteration of `for paragraph in doc.paragraphs`
ParserStep ==
    /\ ppc = "loop"
    /\ Len(paragraphs) < MaxParas
    /\ \E p \in Paragraphs :
         LET st == ParseParagraph([sections |-> psections,
                                   current_section |-> current_section], p)
         IN  /\ paragraphs' = Append(paragraphs, p)
             /\ psections' = st.sections
             /\ current_section' = st.current_section
    /\ UNCHANGED <<ppc, parsed, cvars, svars, rvars>>

\* end of input: flush and return
ParserReturn ==
    /\ ppc = "loop"
    /\ parsed' = ParseFlush([sections |-> psections,
                             current_section |-> current_section])
    /\ ppc' = "returned"
    /\ UNCHANGED <<paragraphs, psections, current_section, cvars, svars, rvars>>

ParserNext == ParserStep \/ ParserReturn

SpecParse == ParserInit /\ [][ParserNext]_vars

-----------------------------------------------------------------------------
(* Slides and shapes *)

\* The text of a shape is its text frame: a sequence of paragraphs, each a
\* sequence of runs. A run is named by where its text comes from: the
\* template file (the idx-th text of the template slide) or the rendering
\* of the idx-th parsed section.
Run(src, idx) == [src |-> src, idx |-> idx]

\* no text frame at all
NoText == <<>>

\* the empty string: one paragraph without run
EmptyText == << <<>> >>

TemplateText(j) == << <<Run("template", j)>> >>

RenderedText(n) == << <<Run("section", n)>> >>

\* The fill of a shape: its kind as fill.type reports it and, for a solid
\* fill, its colour. "inherit" is the fill of a shape that sets none (the
\* type is None), "background" is the explicit no-fill, "unreadable" a
\* fill whose type raises when read, "absent" a shape without fill
\* attribute (a picture, a table frame).
Fill(type, color) == [type |-> type, color |-> color]

InheritedFill == Fill("inherit", "none")

NoFill == Fill("background", "none")

AbsentFill == Fill("absent", "none")

\* the colours that have an rgb value; "theme" is a solid colour that has
\* none, "unset" the colour of a solid fill whose colour was never set
RgbColors == {"red", "blue"}

\* the fill kinds that the copy does not reproduce
OtherFillTypes == {"gradient", "pattern", "picture", "group", "unreadable"}

SourceFills ==
    {InheritedFill, NoFill, Fill("solid", "red"), Fill("solid", "blue"),
     Fill("solid", "theme")}
        \cup { Fill(t, "none") : t \in OtherFillTypes }

\* The outline of a shape: its width as line.width reports it and its
\* colour. "inherit" is the outline of a shape that sets none (the width
\* reads as 0), "zero" the explicit width 0, "unreadable" a width that
\* raises when read, "absent" a shape without line attribute. The colour
\* is one of RgbColors, "theme" (a colour without rgb value) or "none".
Line(width, color) == [width |-> width, color |-> color]

InheritedLine == Line("inherit", "none")

AbsentLine == Line("absent", "none")

PositiveWidths == {"thin", "thick"}

SourceLines ==
    {InheritedLine, Line("zero", "none"), Line("thin", "red"),
     Line("thick", "blue"), Line("thin", "theme"), Line("unreadable", "none")}

\* the outline of a shape as python-pptx creates it
NewLine(kind) ==
    IF kind \in {"textbox", "autoshape", "placeholder", "picture"}
    THEN InheritedLine ELSE AbsentLine

\* rotation in degrees, as <<r>>
Rotations == { <<0>>, <<90>> }

\* the fill of a shape as python-pptx creates it
NewFill(kind) ==
    IF kind \in {"textbox", "autoshape", "placeholder"}
    THEN InheritedFill ELSE AbsentFill

\* ph is <<>> for a shape that is no placeholder, <<idx>> for a placeholder;
\* geom names the rectangle (left, top, width, height); payload tells
\* whether the image of a picture can be read; table is the grid of cell
\* texts of a table, <<>> for any other shape
Shape(kind, ph, text) ==
    [kind |-> kind, ph |-> ph, text |-> text,
     fill |-> NewFill(kind), line |-> NewLine(kind), rotation |-> <<0>>,
     geom |-> "A", payload |-> "ok", table |-> <<>>]

\* FormatHandler._copy_fill_format: the fill of the target afterwards
_copy_fill_format(source_shape, target_shape) ==
    IF source_shape.fill.type = "absent" \/ target_shape.fill.type = "absent"
    THEN target_shape.fill
    ELSE IF source_shape.fill.type = "unreadable" THEN NoFill
    ELSE IF source_shape.fill.type = "solid"
    THEN IF source_shape.fill.color \in RgbColors
         THEN Fill("solid", source_shape.fill.color)
         ELSE Fill("solid", "unset")
    ELSE NoFill

\* FormatHandler._copy_line_format: the outline of the target afterwards.
\* A width that cannot be read raises inside the try block and is only
\* logged; a positive width is copied, and the colour with it when it has
\* an rgb value; any other width makes the target's width 0.
_copy_line_format(source_shape, target_shape) ==
    IF source_shape.line.width = "absent" \/ target_shape.line.width = "absent"
    THEN target_shape.line
    ELSE IF source_shape.line.width = "unreadable" THEN target_shape.line
    ELSE IF source_shape.line.width \in PositiveWidths
    THEN Line(source_shape.line.width,
              IF source_shape.line.color \in RgbColors
              THEN source_shape.line.color
              ELSE target_shape.line.color)
    ELSE Line("zero", target_shape.line.color)

\* FormatHandler.copy_shape_formatting: geometry, then fill, then outline
copy_shape_formatting(source_shape, target_shape) ==
    [target_shape EXCEPT
        !.geom = source_shape.geom,
        !.fill = _copy_fill_format(source_shape, target_shape),
        !.line = _copy_line_format(source_shape, target_shape)]

\* word_reader.copy_shape_formatting, the fill part; gradient_ok tells
\* whether target_shape.fill.gradient() succeeds
legacy_copy_fill(source_shape, target_shape, gradient_ok) ==
    IF source_shape.fill.type = "absent" \/ target_shape.fill.type = "absent"
    THEN target_shape.fill
    ELSE IF source_shape.fill.type = "unreadable" THEN NoFill
    ELSE IF source_shape.fill.type = "solid"
    THEN IF source_shape.fill.color \in RgbColors
         THEN Fill("solid", source_shape.fill.color)
         ELSE Fill("solid", "unset")
    ELSE IF source_shape.fill.type = "gradient" /\ gradient_ok
    THEN Fill("gradient", "none")
    ELSE NoFill

\* word_reader.copy_shape_formatting, the outline part: a width that
\* cannot be read counts as no visible line
legacy_copy_line(source_shape, target_shape) ==
    IF source_shape.line.width = "absent" \/ target_shape.line.width = "absent"
    THEN target_shape.line
    ELSE IF source_shape.line.width \in PositiveWidths
    THEN Line(source_shape.line.width,
              IF source_shape.line.color \in RgbColors
              THEN source_shape.line.color
              ELSE target_shape.line.color)
    ELSE Line("zero", target_shape.line.color)

\* word_reader.copy_shape_formatting: geometry, fill, outline, rotation
legacy_copy_shape_formatting(source_shape, target_shape, gradient_ok) ==
    [target_shape EXCEPT
        !.geom = source_shape.geom,
        !.fill = legacy_copy_fill(source_shape, target_shape, gradient_ok),
        !.line = legacy_copy_line(source_shape, target_shape),
        !.rotation = source_shape.rotation]

\* hasattr(shape, 'text_frame') and hasattr(shape, 'text')
has_text(shape) == shape.kind \in {"placeholder", "textbox", "autoshape"}

\* the first slide of a template file with the placeholder indices of its
\* layout: no shape, one textbox, a placeholder and a textbox, a picture
\* and a textbox, a picture alone, a placeholder that the layout does not
\* have, a shape with a gradient fill before a textbox, a picture whose
\* image cannot be read before a textbox
TemplateSlides ==
    { [shapes |-> <<>>, layout |-> <<>>],
      [shapes |-> <<Shape("textbox", <<>>, TemplateText(1))>>,
       layout |-> <<>>],
      [shapes |-> <<Shape("placeholder", <<0>>, TemplateText(1)),
                    Shape("textbox", <<>>, TemplateText(2))>>,
       layout |-> <<0>>],
      [shapes |-> <<Shape("picture", <<>>, NoText),
                    Shape("textbox", <<>>, TemplateText(1))>>,
       layout |-> <<>>],
      [shapes |-> <<Shape("picture", <<>>, NoText)>>, layout |-> <<0>>],
      [shapes |-> <<[Shape("placeholder", <<1>>, TemplateText(1)) EXCEPT
                        !.geom = "B", !.fill = Fill("solid", "red")]>>,
       layout |-> <<>>],
      [shapes |-> <<[Shape("autoshape", <<>>, EmptyText) EXCEPT
                        !.fill = Fill("gradient", "none")],
                    Shape("textbox", <<>>, TemplateText(1))>>,
       layout |-> <<>>],
      [shapes |-> <<[Shape("picture", <<>>, NoText) EXCEPT
                        !.payload = "unreadable"],
                    Shape("textbox", <<>>, TemplateText(1))>>,
       layout |-> <<>>] }

\* a slide of the loaded file; target_of is the number (1-based position) of
\* the section whose loop iteration took the slide as target_slide, 0 if none
FileSlide(shapes) == [shapes |-> shapes, origin |-> "file", target_of |-> 0]

\* Presentation(template_file) for a file of k slides whose first is t
LoadedDeck(t, k) ==
    [j \in 1..k |-> IF j = 1 THEN FileSlide(t.shapes) ELSE FileSlide(<<>>)]

\* prs.slides.add_slide(template_layout): the layout's placeholders, empty
add_slide(lay) ==
    [shapes |-> [k \in 1..Len(lay) |->
                    Shape("placeholder", <<lay[k]>>, EmptyText)],
     origin |-> "added",
     target_of |-> 0]

\* position of the first placeholder of shapes with index ph, 0 if none
RECURSIVE FirstPlaceholder(_, _, _)
FirstPlaceholder(shapes, ph, k) ==
    IF k > Len(shapes) THEN 0
    ELSE IF shapes[k].kind = "placeholder" /\ shapes[k].ph = ph THEN k
    ELSE FirstPlaceholder(shapes, ph, k + 1)

\* FormatHandler.copy_text_frame on the paragraphs of the target after
\* target_text_frame.clear(): a source paragraph goes into the first
\* target paragraph as long as that is the only one and is empty, and
\* into a new paragraph otherwise
RECURSIVE CopyParagraphs(_, _)
CopyParagraphs(source_paragraphs, target_paragraphs) ==
    IF source_paragraphs = <<>> THEN target_paragraphs
    ELSE CopyParagraphs(
             Tail(source_paragraphs),
             IF Len(target_paragraphs) = 1 /\ target_paragraphs[1] = <<>>
             THEN <<Head(source_paragraphs)>>
             ELSE Append(target_paragraphs, Head(source_paragraphs)))

\* FormatHandler.copy_text_frame: the text frame of the target afterwards
copy_text_frame(source_text_frame) ==
    CopyParagraphs(source_text_frame, EmptyText)

\* shapes.add_table(rows, cols, ...): every cell empty
NewTable(rows, cols) == [r \in 1..rows |-> [c \in 1..cols |-> EmptyText]]

\* SlideManager._copy_table_content: the cells of the target afterwards
_copy_table_content(source_table, target_table) ==
    [r \in 1..Len(target_table) |->
        [c \in 1..Len(target_table[r]) |->
            IF r <= Len(source_table) /\ c <= Len(source_table[r])
            THEN copy_text_frame(source_table[r][c])
            ELSE target_table[r][c]]]

\* SlideManager._copy_placeholder_content
_copy_placeholder_content(source_placeholder, target_shapes) ==
    LET k == FirstPlaceholder(target_shapes, source_placeholder.ph, 1)
    IN  IF k = 0 THEN target_shapes
        ELSE [target_shapes EXCEPT
                 ![k].text = copy_text_frame(source_placeholder.text)]

\* shapes.add_textbox / add_shape / add_picture / add_table at a rectangle
NewShape(kind, geom) ==
    [Shape(kind, <<>>, IF kind \in {"textbox", "autoshape"}
                       THEN EmptyText ELSE NoText)
        EXCEPT !.geom = geom]

\* (mutant) the new shape is put below the shapes already on the target
_copy_non_placeholder_shape_Front(source_shape, target_shapes) ==
    IF source_shape.kind \in {"textbox", "autoshape"}
    THEN <<copy_shape_formatting(source_shape,
               [NewShape(source_shape.kind, source_shape.geom) EXCEPT
                   !.text = copy_text_frame(source_shape.text)])>>
         \o target_shapes
    ELSE target_shapes

\* SlideManager._copy_non_placeholder_shape: a textbox, a picture, an
\* autoshape or a table is created anew on the target; a picture whose
\* image cannot be read and every other kind of shape add nothing
_copy_non_placeholder_shape(source_shape, target_shapes) ==
    CASE source_shape.kind = "textbox" ->
            Append(target_shapes,
                   copy_shape_formatting(source_shape,
                       [NewShape("textbox", source_shape.geom) EXCEPT
                           !.text = copy_text_frame(source_shape.text)]))
      [] source_shape.kind = "picture" ->
            IF source_shape.payload # "ok" THEN target_shapes
            ELSE Append(target_shapes,
                        copy_shape_formatting(source_shape,
                            NewShape("picture", source_shape.geom)))
      [] source_shape.kind = "autoshape" ->
            Append(target_shapes,
                   copy_shape_formatting(source_shape,
                       [NewShape("autoshape", source_shape.geom) EXCEPT
                           !.text = copy_text_frame(source_shape.text)]))
      [] source_shape.kind = "table" ->
            Append(target_shapes,
                   [NewShape("table", source_shape.geom) EXCEPT
                       !.table = _copy_table_content(
                                     source_shape.table,
                                     NewTable(Len(source_shape.table),
                                              Len(source_shape.table[1])))])
      [] OTHER -> target_shapes

\* lines 204-211: the body of the loop for one source shape; a failure
\* inside either copy is logged there and leaves the target as it is
CloneShapeOnto(shape, target_shapes) ==
    IF shape.kind = "placeholder"
    THEN _copy_placeholder_content(shape, target_shapes)
    ELSE _copy_non_placeholder_shape(shape, target_shapes)

\* SlideManager._copy_slide_completely: every source shape in order
RECURSIVE _copy_slide_completely(_, _)
_copy_slide_completely(source_shapes, target_shapes) ==
    IF source_shapes = <<>> THEN target_shapes
    ELSE _copy_slide_completely(
             Tail(source_shapes),
             CloneShapeOnto(Head(source_shapes), target_shapes))

\* the positions of the text-capable shapes, in shape order
RECURSIVE TextShapes(_, _)
TextShapes(shapes, k) ==
    IF k > Len(shapes) THEN <<>>
    ELSE (IF has_text(shapes[k]) THEN <<k>> ELSE <<>>)
         \o TextShapes(shapes, k + 1)

\* SlideManager._create_text_box_from_template: a textbox at the rectangle
\* of the template's first text shape, with its shape formatting; nothing
\* when the template slide has no text shape
_create_text_box_from_template(template_shapes) ==
    LET template_text_shapes == TextShapes(template_shapes, 1)
    IN  IF template_text_shapes = <<>> THEN <<>>
        ELSE LET template_shape == template_shapes[template_text_shapes[1]]
             IN  <<copy_shape_formatting(
                       template_shape,
                       NewShape("textbox", template_shape.geom))>>

\* (mutant) the textbox is always made at the default rectangle
WithTextBox_Default(shapes, template_shapes) ==
    IF TextShapes(shapes, 1) # <<>> THEN shapes
    ELSE Append(shapes, NewShape("textbox", "default"))

\* lines 314-325: a slide without text shape gets a textbox made from the
\* template's first text shape, or one at the default rectangle when the
\* template slide has no text shape either
WithTextBox(shapes, template_shapes) ==
    IF TextShapes(shapes, 1) # <<>> THEN shapes
    ELSE IF _create_text_box_from_template(template_shapes) # <<>>
    THEN shapes \o _create_text_box_from_template(template_shapes)
    ELSE Append(shapes, NewShape("textbox", "default"))

\* (mutant) the other text shapes are left as they are
ClearOthers_None(shapes, main) == shapes

\* lines 336-338: every text shape after the first is emptied
ClearOthers(shapes, main) ==
    [k \in 1..Len(shapes) |->
        IF has_text(shapes[k]) /\ k # main
        THEN [shapes[k] EXCEPT !.text = EmptyText]
        ELSE shapes[k]]

\* what can raise inside _replace_slide_content: nothing; the enumeration
\* of slide.shapes (before anything is written); the first assignment
\* text_shapes[i].text = "" (after the main shape is written)
InjectFaults == {"none", "shapes", "clear"}

\* SlideManager._replace_slide_content on the shapes of the target slide,
\* for the n-th section, under fault f: the shapes afterwards, and whether
\* SlideOperationError was raised
_replace_slide_content(shapes, template_shapes, n, f) ==
    IF f = "shapes" THEN [shapes |-> shapes, raised |-> TRUE]
    ELSE LET boxed == WithTextBox(shapes, template_shapes)
             text_shapes == TextShapes(boxed, 1)
             main == text_shapes[1]
             written == [boxed EXCEPT ![main].text = RenderedText(n)]
         IN  IF f = "clear" /\ Len(text_shapes) > 1
             THEN [shapes |-> written, raised |-> TRUE]
             ELSE [shapes |-> ClearOthers(written, main), raised |-> FALSE]

-----------------------------------------------------------------------------
(* Rendering a section into the primary shape *)

\* str() of a natural number
RECURSIVE str(_)
str(n) ==
    LET digit(d) == CHOOSE c \in Digits : DigitVal(c) = d
    IN  IF n < 10 THEN <<digit(n)>>
        ELSE str(n \div 10) \o <<digit(n % 10)>>

\* text.split('\n')
RECURSIVE split(_)
split(text) ==
    LET first == UpToLineBreak(text)
    IN  IF Len(first) = Len(text) THEN <<text>>
        ELSE <<first>> \o split(Drop(text, Len(first) + 1))

\* '\n'.join(lines)
RECURSIVE join(_)
join(lines) ==
    IF lines = <<>> THEN <<>>
    ELSE IF Len(lines) = 1 THEN lines[1]
    ELSE lines[1] \o <<"\n">> \o join(Tail(lines))

\* a run of a slide paragraph: its text and whether bold was set
PptRun(text, font_bold) == [text |-> text, font_bold |-> font_bold]

\* shape.text = text: one paragraph per line, each with a single run that
\* sets no font, and without run when the line is empty
text_setter(text) ==
    [k \in 1..Len(split(text)) |->
        IF split(text)[k] = <<>> THEN <<>>
        ELSE <<PptRun(split(text)[k], <<>>)>>]

\* paragraph.text: the texts of its runs, concatenated
RECURSIVE paragraph_text(_)
paragraph_text(runs) ==
    IF runs = <<>> THEN <<>>
    ELSE Head(runs).text \o paragraph_text(Tail(runs))

\* shape.text: the paragraphs' texts, joined by line breaks
shape_text(text_frame) ==
    join([k \in 1..Len(text_frame) |-> paragraph_text(text_frame[k])])

\* the text that _replace_content_basic shows when it fails, line 424
ErrorText == <<"!", "!">>

\* the text of the primary shape in the template
PlaceholderText == text_setter(<<"T">>)

\* line.strip() is not empty
not_blank(line) == strip(line) # <<>>

\* (mutant) lines 397-416 without the filter of lines 419-420
basic_text_NoFilter(section) ==
    LET title_text ==
            IF section.number = 0 THEN section.title
            ELSE str(section.number) \o <<".", " ">> \o section.title
        content_lines == section.content
        joined == IF Len(content_lines) > 1
                  THEN join(Tail(content_lines))
                  ELSE section.text_only
        content_text == IF ~not_blank(joined) THEN title_text ELSE joined
    IN  IF content_text # title_text /\ not_blank(content_text)
        THEN title_text \o <<"\n">> \o content_text
        ELSE title_text

\* lines 397-420 of _replace_content_basic: the string assigned to the
\* text of the primary shape
basic_text(section) ==
    LET title_text ==
            IF section.number = 0 THEN section.title
            ELSE str(section.number) \o <<".", " ">> \o section.title
        content_lines == section.content
        joined == IF Len(content_lines) > 1
                  THEN join(Tail(content_lines))
                  ELSE section.text_only
        content_text == IF ~not_blank(joined) THEN title_text ELSE joined
        full_text == IF content_text # title_text /\ not_blank(content_text)
                     THEN title_text \o <<"\n">> \o content_text
                     ELSE title_text
        lines == SelectSeq(split(full_text), not_blank)
    IN  join(lines)

\* (mutant) the text is added after what the shape holds
_replace_content_basic_Append(text_frame, section) ==
    text_frame \o text_setter(basic_text(section))

\* SlideManager._replace_content_basic, when nothing raises: the text
\* frame of the primary shape afterwards
_replace_content_basic(text_frame, section) ==
    text_setter(basic_text(section))

\* lines 384-388: the runs made for one content line, a run whose text is
\* only whitespace being passed over
RunsFor(formatting_data) ==
    LET kept == SelectSeq(formatting_data,
                          LAMBDA format_info : not_blank(format_info.text))
    IN  [k \in 1..Len(kept) |-> PptRun(kept[k].text, kept[k].font_bold)]

\* lines 377-388: the content line at position idx (0-based) is rendered
\* into the first paragraph or into a new one, with the first `upto` of
\* its runs
FormatLine(text_frame, idx, formatting_data, upto) ==
    LET runs == SubSeq(RunsFor(formatting_data), 1, upto)
    IN  IF idx = 0 THEN [text_frame EXCEPT ![1] = @ \o runs]
        ELSE Append(text_frame, runs)

\* zip(section['content'], section.get('formatting', [])): its length
ZipLen(section) ==
    IF Len(section.content) <= Len(section.formatting)
    THEN Len(section.content) ELSE Len(section.formatting)

\* line 331: 'formatting' in section and section['formatting']
has_formatting(section) == section.formatting # <<>>

-----------------------------------------------------------------------------
(* Result records *)

\* logger_config.create_result_dict(success, error, **kwargs)
create_result_dict(success, error, kwargs) ==
    LET base == [success |-> success, error |-> error, timestamp |-> "now"]
        keys == DOMAIN base \cup DOMAIN kwargs
    IN  [k \in keys |-> IF k \in DOMAIN kwargs THEN kwargs[k] ELSE base[k]]

\* str(e) of an exception raised outside this repository
ForeignMessages == {"", "E"}

\* (mutant) the except clause loses the message
ConvertExcept_NoMessage(message) ==
    create_result_dict(FALSE, <<>>,
        [error_info |-> message, processing_time |-> "duration"])

\* document_converter.py:172-181, the except clause of convert
ConvertExcept(message) ==
    create_result_dict(FALSE, <<message>>,
        [error_info |-> message, processing_time |-> "duration"])

\* document_converter.py:261-263, the except clause of convert_document
ConvertDocumentExcept(message) ==
    create_result_dict(FALSE, <<message>>, [error_info |-> message])

\* document_converter.py:149-158, the record of a finished conversion
ConvertSuccess(secs, conversion_result) ==
    create_result_dict(TRUE, <<>>,
        [total_sections |-> Len(secs),
         slides_created |-> conversion_result.slides_created,
         output_file |-> "output_file",
         skipped_sections |-> conversion_result.skipped_sections,
         format_issues |-> conversion_result.format_issues,
         processing_time |-> "duration",
         template_analysis |-> "template_analysis"])

\* slide_manager.py:104-110
ReplaceResultInit ==
    [success |-> FALSE, slides_created |-> 0, skipped_sections |-> <<>>,
     format_issues |-> <<>>, error |-> <<>>]

\* (mutant) the entry of a skipped section loses its title
error_info_NoTitle(section, message) ==
    [number |-> section.number, title |-> <<>>, error |-> message]

\* slide_manager.py:138-143
error_info(section, message) ==
    [number |-> section.number, title |-> section.title, error |-> message]

-----------------------------------------------------------------------------
(* DocumentConverter.convert_document and WordToPowerPointStrategy.convert *)

\* the documents converted: text, and headers with a repeated number
DocLines == { <<"a">>, <<"1", ".", "a">> }

RECURSIVE SeqsUpTo(_, _)
SeqsUpTo(S, n) ==
    IF n = 0 THEN { <<>> }
    ELSE LET shorter == SeqsUpTo(S, n - 1)
         IN  shorter \cup { Append(q, x) : q \in shorter, x \in S }

Docs == SeqsUpTo({ Paragraph(l) : l \in DocLines }, MaxDocParas)

\* progress_callback(c, 5, ...) of convert; slide_progress(n, total, ...)
\* of the n-th loop iteration, which passes 4 + (n / total) * 0.8 on
Checkpoint(c) == [current |-> c, section |-> 0]

SlideProgress(n) == [current |-> 4, section |-> n]

Stage(name, n) == [stage |-> name, section |-> n]

\* the callback is invoked when one was supplied
Invoke(call) ==
    calls' = IF progress_callback = "none" THEN calls ELSE Append(calls, call)

\* whether this invocation raises
CallRaises == IF progress_callback = "may_raise" THEN {TRUE, FALSE} ELSE {FALSE}

\* the except clause of convert is taken with str(e) = message, the
\* exception coming from the given step
Fail(step, message) ==
    /\ pc' = "done"
    /\ result' = <<ConvertExcept(message)>>
    /\ fatal' = step

\* no exception: on to the next statement
Goto(next) ==
    /\ pc' = next
    /\ UNCHANGED <<result, fatal>>

\* (mutant) a run with skipped sections is taken for a failed one
conversion_failed_OnSkip(conversion_result) ==
    ~conversion_result.success \/ conversion_result.skipped_sections # <<>>

\* (mutant) the result of replace_slides_with_sections is not tested
conversion_failed_Never(conversion_result) == FALSE

\* document_converter.py:130
conversion_failed(conversion_result) == ~conversion_result.success

ConverterInit ==
    /\ pc = "validate"
    /\ progress_callback \in {"none", "returns", "may_raise"}
    /\ calls = <<>>
    /\ trace = <<>>
    /\ sections = <<>>
    /\ deck = <<>>
    /\ layout = <<>>
    /\ saved = <<>>
    /\ result = <<>>
    /\ i = 0
    /\ slides_created = 0
    /\ rresult = <<>>
    /\ fault = <<>>
    /\ template_file = <<>>
    /\ fatal = "none"
    /\ ppc = "idle"
    /\ paragraphs = <<>>
    /\ psections = <<>>
    /\ current_section = <<>>
    /\ parsed = <<>>
    /\ ShapeIdle
    /\ RenderIdle

ValidationErrors ==
    {"SOURCE_NOT_FOUND", "TEMPLATE_NOT_FOUND", "UNSUPPORTED_SOURCE_FORMAT",
     "UNSUPPORTED_TEMPLATE_FORMAT"}

\* convert_document: _validate_files, then the strategy
ValidateFiles ==
    /\ pc = "validate"
    /\ \/ Goto("parse")
       \/ \E e \in ValidationErrors :
             /\ pc' = "done"
             /\ result' = <<ConvertDocumentExcept(e)>>
             /\ fatal' = "validate"
    /\ UNCHANGED <<progress_callback, calls, trace, sections, deck, layout,
                   saved, i, slides_created, rresult, fault, template_file,
                   pvars, svars, rvars>>

\* convert, step 1: parse the Word document
ParseStage ==
    /\ pc = "parse"
    /\ Invoke(Checkpoint(1))
    /\ \/ \E m \in ForeignMessages :
             /\ TRUE \in CallRaises
             /\ Fail("parse", m)
             /\ UNCHANGED <<trace, sections>>
       \/ /\ trace' = Append(trace, Stage("parse", 0))
          /\ \/ /\ Fail("parse", "WORD_PARSE_ERROR")
                /\ UNCHANGED sections
             \/ \E doc \in Docs :
                   /\ sections' = _parse_numbered_sections(doc)
                   /\ Goto("load")
    /\ UNCHANGED <<progress_callback, deck, layout, saved, i, slides_created,
                   rresult, fault, template_file, pvars, svars, rvars>>

\* convert, step 2: load the template
TemplateLoadErrors == {"TEMPLATE_NOT_FOUND", "TEMPLATE_LOAD_ERROR"}

\* (mutant) the deck is not tested for slides
empty_template_Unchecked(slides) == FALSE

\* document_converter.py:101
empty_template(slides) == Len(slides) = 0

LoadStage ==
    /\ pc = "load"
    /\ Invoke(Checkpoint(2))
    /\ \/ \E m \in ForeignMessages :
             /\ TRUE \in CallRaises
             /\ Fail("load", m)
             /\ UNCHANGED <<trace, deck, layout, template_file>>
       \/ /\ trace' = Append(trace, Stage("load", 0))
          /\ \/ \E e \in TemplateLoadErrors :
                   /\ Fail("load", e)
                   /\ UNCHANGED <<deck, layout, template_file>>
             \/ \E t \in TemplateSlides, k \in 0..MaxTemplateSlides :
                   /\ template_file' = <<[slide |-> t, slides |-> k]>>
                   /\ deck' = LoadedDeck(t, k)
                   /\ layout' = t.layout
                   /\ IF empty_template(deck')
                      THEN Fail("load", "EMPTY_TEMPLATE")
                      ELSE Goto("analyze")
    /\ UNCHANGED <<progress_callback, sections, saved, i, slides_created,
                   rresult, fault, pvars, svars, rvars>>

\* convert, step 3: analyze_template_slide, which catches what it raises
AnalyzeStage ==
    /\ pc = "analyze"
    /\ Invoke(Checkpoint(3))
    /\ \/ \E m \in ForeignMessages :
             /\ TRUE \in CallRaises
             /\ Fail("analyze", m)
             /\ UNCHANGED trace
       \/ /\ trace' = Append(trace, Stage("analyze", 0))
          /\ Goto("replace")
    /\ UNCHANGED <<progress_callback, sections, deck, layout, saved, i,
                   slides_created, rresult, fault, template_file, pvars, svars, rvars>>

\* SlideManager._clear_existing_slides: the slides are removed from the
\* last one down to the second; an exception at any removal is swallowed
\* and leaves the first keep slides
_clear_existing_slides(slides, keep) == SubSeq(slides, 1, keep)

\* slide_manager.py:153-156, the outer except clause
Aborted(conversion_result, message) ==
    [conversion_result EXCEPT !.error = <<message>>]

\* convert, step 4 up to the loop of replace_slides_with_sections
ReplaceStage ==
    /\ pc = "replace"
    /\ Invoke(Checkpoint(4))
    /\ \/ \E m \in ForeignMessages :
             /\ TRUE \in CallRaises
             /\ Fail("replace", m)
             /\ UNCHANGED <<trace, deck, rresult>>
       \/ \* template_slide.slide_layout raises: the outer except clause
          /\ rresult' = <<Aborted(ReplaceResultInit, "REPLACE_FAILED")>>
          /\ IF conversion_failed(rresult'[1])
             THEN Fail("replace", "CONVERSION_FAILED")
             ELSE Goto("save")
          /\ UNCHANGED <<trace, deck>>
       \/ /\ rresult' = <<ReplaceResultInit>>
          /\ trace' = Append(trace, Stage("cleanup", 0))
          /\ \E keep \in 1..Len(deck) :
                deck' = _clear_existing_slides(deck, keep)
          /\ Goto("sections")
    /\ i' = 0
    /\ slides_created' = 0
    /\ UNCHANGED <<progress_callback, sections, layout, saved, fault,
                   template_file, pvars, svars, rvars>>

\* what one loop iteration can raise: nothing, slide_progress, add_slide,
\* _copy_slide_completely, or _replace_slide_content
SectionFaults == {"none", "callback", "add_slide", "copy", "shapes", "clear"}

\* str(e) in the except clause of the loop
SkipMessage(f) ==
    CASE f = "callback" -> "callback raised"
      [] f = "add_slide" -> "add_slide raised"
      [] f = "copy" -> "copy slide failed"
      [] OTHER -> "replace content failed"

\* lines 138-143: the except clause of the loop
Skipped(conversion_result, section, message) ==
    [conversion_result EXCEPT
        !.skipped_sections = Append(@, error_info(section, message))]

\* (mutant) no callback is handed to replace_slides_with_sections
slide_progress_None(n) == calls' = calls

\* document_converter.py:122-125 called at slide_manager.py:122-123
slide_progress(n) == Invoke(SlideProgress(n))

\* one iteration of the loop, lines 120-144
ProcessSection ==
    /\ pc = "sections"
    /\ i < Len(sections)
    /\ \E f \in SectionFaults :
         LET n == i + 1
             section == sections[n]
             added == IF n = 1 THEN deck ELSE Append(deck, add_slide(layout))
             t == IF n = 1 THEN 1 ELSE Len(added)
             cloned == IF n = 1 \/ f = "copy" THEN added[t].shapes
                       ELSE _copy_slide_completely(deck[1].shapes,
                                                   added[t].shapes)
             inj == _replace_slide_content(
                        cloned, deck[1].shapes, n,
                        IF f \in InjectFaults THEN f ELSE "none")
             raised == f \in {"callback", "add_slide", "copy"} \/ inj.raised
         IN  /\ f = "callback" => progress_callback = "may_raise"
             /\ f \in {"add_slide", "copy"} => n > 1
             /\ f = "clear" => inj.raised
             /\ slide_progress(n)
             /\ deck' =
                  CASE f \in {"callback", "add_slide"} -> deck
                    [] f = "copy" -> [added EXCEPT ![t].target_of = n]
                    [] OTHER ->
                         [added EXCEPT ![t].shapes = inj.shapes,
                                       ![t].target_of = n]
             /\ slides_created' =
                  IF raised THEN slides_created ELSE slides_created + 1
             /\ rresult' =
                  IF raised
                  THEN <<Skipped(rresult[1], section, SkipMessage(f))>>
                  ELSE rresult
             /\ fault' = Append(fault, f)
             /\ trace' = Append(trace, Stage("section", n))
             /\ i' = n
    /\ UNCHANGED <<pc, progress_callback, sections, layout, saved, result,
                   template_file, fatal, pvars, svars, rvars>>

\* lines 146-149
Finished(conversion_result, created) ==
    [conversion_result EXCEPT !.success = TRUE, !.slides_created = created]

\* the loop is over: replace_slides_with_sections returns, convert tests
\* the result (line 130)
ReplaceReturn ==
    /\ pc = "sections"
    /\ i = Len(sections)
    /\ rresult' = <<Finished(rresult[1], slides_created)>>
    /\ IF conversion_failed(rresult'[1])
       THEN Fail("replace", "CONVERSION_FAILED")
       ELSE Goto("save")
    /\ UNCHANGED <<progress_callback, calls, trace, sections, deck, layout,
                   saved, i, slides_created, fault, template_file, pvars, svars, rvars>>

\* convert, step 5: save the deck and build the result record
SaveStage ==
    /\ pc = "save"
    /\ Invoke(Checkpoint(5))
    /\ \/ \E m \in ForeignMessages :
             \* the callback raises
             /\ TRUE \in CallRaises
             /\ Fail("save", m)
             /\ UNCHANGED <<trace, saved>>
       \/ \E m \in ForeignMessages :
             \* mkdir of the output directory raises
             /\ Fail("save", m)
             /\ UNCHANGED <<trace, saved>>
       \/ \E m \in ForeignMessages :
             \* prs.save raises
             /\ trace' = Append(trace, Stage("save", 0))
             /\ Fail("save", m)
             /\ UNCHANGED saved
       \/ /\ trace' = Append(trace, Stage("save", 0))
          /\ saved' = Append(saved, deck)
          /\ pc' = "done"
          /\ result' = <<ConvertSuccess(sections, rresult[1])>>
          /\ UNCHANGED fatal
    /\ UNCHANGED <<progress_callback, sections, deck, layout, i,
                   slides_created, rresult, fault, template_file, pvars, svars, rvars>>

Next ==
    \/ ValidateFiles
    \/ ParseStage
    \/ LoadStage
    \/ AnalyzeStage
    \/ ReplaceStage
    \/ ProcessSection
    \/ ReplaceReturn
    \/ SaveStage

Spec == ConverterInit /\ [][Next]_vars

-----------------------------------------------------------------------------
(* Operations on shapes, one at a time: FormatHandler.copy_shape_formatting  *)
(* and its older variant in word_reader.py, SlideManager._copy_table_content *)
(* and the loop of SlideManager._copy_slide_completely                       *)

\* source shapes of one cloned slide
MaxShapes == 3

\* rows, and columns, of a table
MaxDim == 2

\* the shapes whose format is copied: a textbox and an autoshape with every
\* fill, outline and rotation, and a picture
FormatSources ==
    { [Shape(k, <<>>, TemplateText(1)) EXCEPT
          !.fill = f, !.line = l, !.rotation = r, !.geom = "B"] :
          k \in {"textbox", "autoshape"}, f \in SourceFills,
          l \in SourceLines, r \in Rotations }
        \cup { [Shape("picture", <<>>, NoText) EXCEPT
                   !.line = l, !.rotation = r, !.geom = "B"] :
                   l \in SourceLines, r \in Rotations }

\* paragraphs of a text frame that is copied
MaxFrameParas == 3

\* the paragraphs of a source text frame: without run, with one, with two
SourceParagraphs ==
    { <<>>, <<Run("template", 1)>>,
      <<Run("template", 1), Run("template", 2)>> }

\* a text frame has at least one paragraph
TextFrames == SeqsUpTo(SourceParagraphs, MaxFrameParas) \ { <<>> }

\* the text of a cell: one line, and a line after an empty first paragraph
CellX == << <<Run("template", 1)>> >>

CellY == << <<>>, <<Run("template", 2)>> >>

\* the text of a cell of a target table that was not freshly made
CellOld == << <<Run("template", 3)>> >>

Grids(cells) ==
    UNION { [1..r -> [1..c -> cells]] : r \in 1..MaxDim, c \in 1..MaxDim }

SourceTables == Grids({CellX, CellY})

TargetTables == Grids({EmptyText}) \cup Grids({CellOld})

\* the shapes of a slide to clone: a textbox, an autoshape, a picture, a
\* picture whose image cannot be read, a table, a group, a placeholder that
\* the target's layout has and one that it has not
CloneShapes ==
    { [Shape("textbox", <<>>, TemplateText(1)) EXCEPT
          !.fill = Fill("solid", "red")],
      [Shape("autoshape", <<>>, TemplateText(2)) EXCEPT
          !.fill = Fill("gradient", "none"), !.geom = "B"],
      [Shape("picture", <<>>, NoText) EXCEPT !.geom = "C"],
      [Shape("picture", <<>>, NoText) EXCEPT
          !.geom = "D", !.payload = "unreadable"],
      [Shape("table", <<>>, NoText) EXCEPT
          !.geom = "E", !.table = << <<CellX>> >>],
      Shape("group", <<>>, NoText),
      Shape("placeholder", <<0>>, TemplateText(3)),
      Shape("placeholder", <<1>>, TemplateText(3)) }

ShapeInit ==
    /\ shape_op = "ready"
    /\ shape_source = <<>>
    /\ shape_target = <<>>
    /\ shape_out = <<>>
    /\ cursor = 0
    /\ ConverterIdle
    /\ ppc = "idle"
    /\ paragraphs = <<>>
    /\ psections = <<>>
    /\ current_section = <<>>
    /\ parsed = <<>>
    /\ RenderIdle

\* FormatHandler.copy_shape_formatting(source_shape, target_shape) on a
\* target that was just created
CopyShapeFormatting ==
    /\ shape_op = "ready"
    /\ \E s \in FormatSources :
         /\ shape_source' = s
         /\ shape_target' = NewShape(s.kind, "A")
         /\ shape_out' = copy_shape_formatting(s, NewShape(s.kind, "A"))
    /\ shape_op' = "copy_shape_formatting"
    /\ UNCHANGED <<cursor, pvars, cvars, rvars>>

\* word_reader.copy_shape_formatting(source_shape, target_shape) on a
\* target that was just created
LegacyCopyShapeFormatting ==
    /\ shape_op = "ready"
    /\ \E s \in FormatSources, gradient_ok \in BOOLEAN :
         /\ shape_source' = s
         /\ shape_target' = NewShape(s.kind, "A")
         /\ shape_out' =
              legacy_copy_shape_formatting(s, NewShape(s.kind, "A"),
                                           gradient_ok)
    /\ shape_op' = "legacy_copy_shape_formatting"
    /\ UNCHANGED <<cursor, pvars, cvars, rvars>>

\* FormatHandler.copy_text_frame(source_text_frame, target_text_frame) on
\* a target that is empty or holds text
CopyTextFrame ==
    /\ shape_op = "ready"
    /\ \E s \in TextFrames, t \in {EmptyText, TemplateText(3)} :
         /\ shape_source' = s
         /\ shape_target' = t
         /\ shape_out' = copy_text_frame(s)
    /\ shape_op' = "copy_text_frame"
    /\ UNCHANGED <<cursor, pvars, cvars, rvars>>

\* SlideManager._copy_table_content(source_table, target_table_shape)
CopyTableContent ==
    /\ shape_op = "ready"
    /\ \E s \in SourceTables, t \in TargetTables :
         /\ shape_source' = s
         /\ shape_target' = t
         /\ shape_out' = _copy_table_content(s, t)
    /\ shape_op' = "copy_table_content"
    /\ UNCHANGED <<cursor, pvars, cvars, rvars>>

\* SlideManager._copy_slide_completely(source_slide, target_slide) is
\* entered with a slide just added from a layout
CloneBegin ==
    /\ shape_op = "ready"
    /\ \E source_shapes \in SeqsUpTo(CloneShapes, MaxShapes),
          lay \in {<<>>, <<0>>} :
         /\ shape_source' = source_shapes
         /\ shape_target' = add_slide(lay).shapes
         /\ shape_out' = add_slide(lay).shapes
    /\ shape_op' = "clone"
    /\ cursor' = 0
    /\ UNCHANGED <<pvars, cvars, rvars>>

\* one iteration of `for shape in source_slide.shapes`
CloneShape ==
    /\ shape_op = "clone"
    /\ cursor < Len(shape_source)
    /\ shape_out' = CloneShapeOnto(shape_source[cursor + 1], shape_out)
    /\ cursor' = cursor + 1
    /\ UNCHANGED <<shape_op, shape_source, shape_target, pvars, cvars, rvars>>

\* the loop is over
CloneReturn ==
    /\ shape_op = "clone"
    /\ cursor = Len(shape_source)
    /\ shape_op' = "cloned"
    /\ UNCHANGED <<shape_source, shape_target, shape_out, cursor,
                   pvars, cvars, rvars>>

ShapeNext ==
    \/ CopyShapeFormatting
    \/ CopyTextFrame
    \/ LegacyCopyShapeFormatting
    \/ CopyTableContent
    \/ CloneBegin
    \/ CloneShape
    \/ CloneReturn

SpecShape == ShapeInit /\ [][ShapeNext]_vars

-----------------------------------------------------------------------------
(* The injection of one section into the primary shape: lines 330-334 of    *)
(* _replace_slide_content, _replace_content_with_formatting,                 *)
(* _replace_content_basic, and the accounting of the loop iteration that     *)
(* called them                                                               *)

\* paragraphs of the documents whose sections are rendered
MaxRenderParas == 2

\* a paragraph of two words in runs of their own, the space between them
\* being a run as well
SpacedParagraph ==
    [text |-> <<"a", " ", "b">>,
     runs |-> <<[text |-> <<"a">>, bold |-> <<TRUE>>],
                [text |-> <<" ">>, bold |-> <<>>],
                [text |-> <<"b">>, bold |-> <<>>]>>,
     readable |-> 3]

RenderParagraphs ==
    { Paragraph(<<"a">>), Paragraph(<<"1", ".", "a">>),
      Paragraph(<<"2", ".", " ", "b">>), Paragraph(<<"0", ".">>),
      Paragraph(<<"1", ".", "a", "\n", "b">>),
      SpacedParagraph, UnreadableParagraph }

\* the sections that the parser makes of documents of these paragraphs
ParsedSections ==
    UNION { { _parse_numbered_sections(d)[k] :
                k \in 1..Len(_parse_numbered_sections(d)) } :
            d \in SeqsUpTo(RenderParagraphs, MaxRenderParas) }

\* the sections handed to the slide manager: those of the parser, and the
\* same without formatting data
RenderSections ==
    ParsedSections \cup { [sec EXCEPT !.formatting = <<>>] : sec \in ParsedSections }

RenderInit ==
    /\ render_pc = "ready"
    /\ render_section = <<>>
    /\ main_text_shape = <<>>
    /\ content_idx = 0
    /\ modes = <<>>
    /\ render_created = 0
    /\ render_skipped = <<>>
    /\ ConverterIdle
    /\ ShapeIdle
    /\ ppc = "idle"
    /\ paragraphs = <<>>
    /\ psections = <<>>
    /\ current_section = <<>>
    /\ parsed = <<>>

\* lines 330-334 and 372: the mode is chosen; the formatted pass begins
\* with text_frame.clear(), which leaves one empty paragraph, or raises
RenderBegin ==
    /\ render_pc = "ready"
    /\ \E sec \in RenderSections :
         /\ render_section' = <<sec>>
         /\ IF has_formatting(sec)
            THEN \/ /\ main_text_shape' = EmptyText
                    /\ render_pc' = "formatted"
                    /\ modes' = <<"formatted">>
                 \/ /\ main_text_shape' = PlaceholderText
                    /\ render_pc' = "basic"
                    /\ modes' = <<"formatted", "raise">>
            ELSE /\ main_text_shape' = PlaceholderText
                 /\ render_pc' = "basic"
                 /\ modes' = <<>>
    /\ content_idx' = 0
    /\ UNCHANGED <<render_created, render_skipped, pvars, cvars, svars>>

\* one iteration of the loop of lines 374-388: the line is rendered, or
\* something raises after `upto` of its runs were made
RenderLine ==
    /\ render_pc = "formatted"
    /\ content_idx < ZipLen(render_section[1])
    /\ LET formatting_data == render_section[1].formatting[content_idx + 1]
           n == Len(RunsFor(formatting_data))
       IN  \/ /\ main_text_shape' =
                    FormatLine(main_text_shape, content_idx, formatting_data, n)
              /\ content_idx' = content_idx + 1
              /\ UNCHANGED <<render_pc, modes>>
           \/ \E upto \in 0..n :
                /\ main_text_shape' =
                      FormatLine(main_text_shape, content_idx,
                                 formatting_data, upto)
                /\ render_pc' = "basic"
                /\ modes' = Append(modes, "raise")
                /\ UNCHANGED content_idx
    /\ UNCHANGED <<render_section, render_created, render_skipped,
                   pvars, cvars, svars>>

\* the loop is over: _replace_content_with_formatting returns
RenderFormatted ==
    /\ render_pc = "formatted"
    /\ content_idx = ZipLen(render_section[1])
    /\ render_pc' = "return"
    /\ UNCHANGED <<render_section, main_text_shape, content_idx, modes,
                   render_created, render_skipped, pvars, cvars, svars>>

\* _replace_content_basic: the text is assigned; or something raises in
\* the try block and the except clause assigns the error text (line 424);
\* or that assignment raises as well and the exception leaves the function
RenderBasic ==
    /\ render_pc = "basic"
    /\ \/ /\ main_text_shape' =
                _replace_content_basic(main_text_shape, render_section[1])
          /\ modes' = Append(modes, "basic")
       \/ /\ main_text_shape' = text_setter(ErrorText)
          /\ modes' = modes \o <<"basic", "raise">>
       \/ /\ main_text_shape' = main_text_shape
          /\ modes' = modes \o <<"basic", "raise", "raise">>
    /\ render_pc' = "return"
    /\ UNCHANGED <<render_section, content_idx, render_created,
                   render_skipped, pvars, cvars, svars>>

\* an exception has left _replace_content_basic
RenderRaised ==
    /\ Len(modes) >= 2
    /\ modes[Len(modes)] = "raise"
    /\ modes[Len(modes) - 1] = "raise"

\* slide_manager.py:132-143: _replace_slide_content has returned and the
\* section is counted, or has raised and the section is recorded as skipped
RenderReturn ==
    /\ render_pc = "return"
    /\ IF RenderRaised
       THEN /\ render_skipped' =
                 <<error_info(render_section[1], SkipMessage("shapes"))>>
            /\ UNCHANGED render_created
       ELSE /\ render_created' = 1
            /\ UNCHANGED render_skipped
    /\ render_pc' = "done"
    /\ UNCHANGED <<render_section, main_text_shape, content_idx, modes,
                   pvars, cvars, svars>>

RenderNext ==
    \/ RenderBegin
    \/ RenderLine
    \/ RenderFormatted
    \/ RenderBasic
    \/ RenderReturn

SpecRender == RenderInit /\ [][RenderNext]_vars

-----------------------------------------------------------------------------
(* Properties of the conversion *)

N == Len(sections)

\* the sections whose loop iteration raised
Failed == { k \in 1..Len(fault) : fault[k] # "none" }

CloneOrInjectFaults == {"add_slide", "copy", "shapes", "clear"}

IsPrefix(p, q) == Len(p) <= Len(q) /\ SubSeq(q, 1, Len(p)) = p

InTrace(name) == \E k \in 1..Len(trace) : trace[k].stage = name

\* replace_slides_with_sections has returned
Returned == rresult # <<>> /\ pc \in {"save", "done"}

\* C1 as stated: after replace_slides_with_sections over N >= 0 sections, of
\* which any subset failed in cloning or injection, the deck holds exactly N
\* slides and the k-th slide is the one made for the k-th section.
C1_Original ==
    (/\ Returned
     /\ rresult[1].success
     /\ \A k \in 1..Len(fault) : fault[k] \in CloneOrInjectFaults \cup {"none"})
    => /\ Len(deck) = N
       /\ \A k \in 1..N : deck[k].target_of = k

\* C2 as stated: in every final state of replace_slides_with_sections over N
\* sections of which M raised, there are M skipped entries and
\* slides_created = N - M, so that the two add up to N.
C2_Original ==
    Returned =>
        LET M == Cardinality(Failed)
        IN  /\ Len(rresult[1].skipped_sections) = M
            /\ rresult[1].slides_created = N - M
            /\ rresult[1].slides_created + Len(rresult[1].skipped_sections) = N

\* the entries expected for the failed ones among the first k sections
RECURSIVE ExpectedSkipped(_)
ExpectedSkipped(k) ==
    IF k = 0 THEN <<>>
    ELSE ExpectedSkipped(k - 1) \o
         (IF fault[k] = "none" THEN <<>>
          ELSE <<[number |-> sections[k].number,
                  title |-> sections[k].title,
                  error |-> SkipMessage(fault[k])]>>)

\* C2 (amended): in every final state in which replace_slides_with_sections
\* reports success = true, skipped_sections holds exactly one entry per
\* section whose iteration raised (M of them), in parse order, each with
\* that section's number, title and error text, slides_created = N - M, and
\* the two add up to N; while the loop runs they add up to the number of
\* sections handled so far.
C2_SkippedAccounting ==
    /\ (rresult # <<>> /\ rresult[1].success) =>
          LET M == Cardinality(Failed)
          IN  /\ rresult[1].skipped_sections = ExpectedSkipped(N)
              /\ Len(rresult[1].skipped_sections) = M
              /\ rresult[1].slides_created = N - M
              /\ rresult[1].slides_created
                    + Len(rresult[1].skipped_sections) = N
    /\ pc = "sections" =>
          /\ rresult[1].skipped_sections = ExpectedSkipped(i)
          /\ slides_created + Len(rresult[1].skipped_sections) = i

\* three sections, the first and the last skipped, the second created
C2_Witness ==
    /\ Returned
    /\ rresult[1].success
    /\ N = 3
    /\ Failed = {1, 3}
    /\ rresult[1].slides_created = 1
    /\ Len(rresult[1].skipped_sections) = 2

\* the section iterations entered, in order
SectionEvents == SelectSeq(trace, LAMBDA e : e.stage = "section")

\* C3 as stated: once a section has failed in cloning or injection, the run
\* still handles every later section, saves the deck and returns
\* success = true.
C3_Original ==
    (pc = "done" /\ \E k \in 1..Len(fault) : fault[k] \in CloneOrInjectFaults)
    => /\ i = N
       /\ saved = <<deck>>
       /\ result[1].success

\* C3 (amended): a failure while cloning or injecting one section never
\* aborts the conversion: every later section is still handled in order,
\* replace_slides_with_sections reports success, and the deck is saved with
\* convert returning success = true unless the save step itself (the
\* pre-save progress callback, the output directory, prs.save) raises.
C3_SectionFailureNotFatal ==
    (pc = "done" /\ \E k \in 1..Len(fault) : fault[k] \in CloneOrInjectFaults)
    => /\ i = N
       /\ Len(fault) = N
       /\ SectionEvents = [k \in 1..N |-> Stage("section", k)]
       /\ rresult[1].success
       /\ fatal \in {"none", "save"}
       /\ fatal = "none" => saved = <<deck>> /\ result[1].success

\* the first of three sections failed in injection, the other two were
\* created, the deck was saved and the conversion succeeded
C3_Witness ==
    /\ pc = "done"
    /\ N = 3
    /\ fault = <<"shapes", "none", "none">>
    /\ saved = <<deck>>
    /\ result[1].success
    /\ result[1].slides_created = 2

\* the template slide as it was loaded, and a fresh clone of it
TemplateShapes == template_file[1].slide.shapes

FreshClone ==
    _copy_slide_completely(TemplateShapes, add_slide(layout).shapes)

\* C4 as stated: the slide of a section whose injection failed is an
\* unmodified clone of the template (the template slide itself for the
\* first section): its shapes are those of the template, and none carries
\* the text of a section.
C4_Original ==
    \A k \in 1..Len(fault) :
        fault[k] \in {"shapes", "clear"} =>
            \A j \in 1..Len(deck) :
                deck[j].target_of = k =>
                    /\ deck[j].shapes =
                          IF k = 1 THEN TemplateShapes ELSE FreshClone
                    /\ \A x \in 1..Len(deck[j].shapes) :
                          \A n \in 1..N :
                              deck[j].shapes[x].text # RenderedText(n)

\* C5: when the loaded template deck has no slide, the conversion is over
\* with success = false and a non-empty error message, and neither the
\* cleanup, nor an iteration of the section loop, nor the save has run: no
\* deck was written.
C5_EmptyTemplate ==
    (template_file # <<>> /\ template_file[1].slides = 0) =>
        /\ pc = "done"
        /\ result # <<>>
        /\ result[1].success = FALSE
        /\ result[1].error # <<>>
        /\ result[1].error[1] # ""
        /\ ~InTrace("cleanup") /\ ~InTrace("section") /\ ~InTrace("save")
        /\ rresult = <<>>
        /\ fault = <<>>
        /\ saved = <<>>

\* a template file without slides was loaded, for a document with sections
C5_Witness ==
    /\ template_file # <<>>
    /\ template_file[1].slides = 0
    /\ N >= 1
    /\ pc = "done"

\* the stages of a conversion of n sections that runs to the end
Canonical(n) ==
    <<Stage("parse", 0), Stage("load", 0), Stage("analyze", 0),
      Stage("cleanup", 0)>>
    \o [k \in 1..n |-> Stage("section", k)]
    \o <<Stage("save", 0)>>

\* C6: the stages entered so far are always an initial part of parse,
\* template load, analysis, cleanup, sections 1..N in order, save; save is
\* invoked at most once and only after the last section; no deck is saved
\* and save is not invoked in a run that failed before the save step.
C6_StageOrder ==
    /\ IsPrefix(trace, Canonical(N))
    /\ Len(saved) <= 1
    /\ InTrace("save") => i = N /\ trace = Canonical(N)
    /\ saved # <<>> => InTrace("save")
    /\ fatal \notin {"none", "save"} => ~InTrace("save") /\ saved = <<>>

\* a finished conversion of three sections, one of them skipped
C6_Witness ==
    /\ pc = "done"
    /\ N = 3
    /\ Failed = {2}
    /\ trace = Canonical(3)
    /\ Len(saved) = 1

\* the invocations of the callback by a conversion of n sections that runs
\* to the end
FullCalls(n) ==
    <<Checkpoint(1), Checkpoint(2), Checkpoint(3), Checkpoint(4)>>
    \o [k \in 1..n |-> SlideProgress(k)]
    \o <<Checkpoint(5)>>

\* the number of invocations of a finished run, by the step that failed
CallsUpTo(step) ==
    CASE step = "validate" -> 0
      [] step = "parse" -> 1
      [] step = "load" -> 2
      [] step = "analyze" -> 3
      [] step = "replace" -> 4
      [] step \in {"save", "none"} -> N + 5

\* C7: with a callback supplied, the invocations made so far are an initial
\* part of: before parsing, after parsing, after the template load, after
\* the analysis, one per section in parse order, before the save; a
\* conversion that succeeds has made all N + 5 of them, and one that fails
\* at a step has made exactly those up to that step.  Without a callback
\* nothing is invoked.
C7_CallbackOrder ==
    /\ progress_callback = "none" => calls = <<>>
    /\ progress_callback # "none" =>
          /\ IsPrefix(calls, FullCalls(N))
          /\ pc = "done" => Len(calls) = CallsUpTo(fatal)

\* a successful conversion of three sections, one of them skipped, with a
\* callback: eight invocations
C7_Witness ==
    /\ pc = "done"
    /\ progress_callback # "none"
    /\ result[1].success
    /\ N = 3
    /\ Failed # {}
    /\ Len(calls) = 8

SuccessKeys ==
    {"total_sections", "slides_created", "skipped_sections", "format_issues",
     "processing_time"}

\* C8: convert_document always ends by returning a record with success and
\* error, and returns nothing before; after a fatal error success is false
\* and error is a message (not None); success = true comes with error None
\* and with total_sections, slides_created, skipped_sections, format_issues
\* and processing_time, and only when nothing fatal happened.
C8_ResultRecord ==
    /\ pc # "done" => result = <<>> /\ fatal = "none"
    /\ pc = "done" =>
          /\ Len(result) = 1
          /\ {"success", "error"} \subseteq DOMAIN result[1]
          /\ fatal # "none" =>
                result[1].success = FALSE /\ Len(result[1].error) = 1
          /\ result[1].success =>
                /\ fatal = "none"
                /\ result[1].error = <<>>
                /\ SuccessKeys \subseteq DOMAIN result[1]
                /\ result[1].total_sections = N

\* the save failed after every section had been handled
C8_Witness ==
    /\ pc = "done"
    /\ fatal = "save"
    /\ N >= 1
    /\ InTrace("save")
    /\ result[1].success = FALSE

-----------------------------------------------------------------------------
(* Properties of the parser *)

NonBlank(p) == strip(p.text) # <<>>

IsHeaderLine(p) == number_pattern_match(strip(p.text)) # <<>>

\* the paragraphs read so far that are not blank, in input order
NonBlankParas == SelectSeq(paragraphs, NonBlank)

HeaderParas == SelectSeq(paragraphs, IsHeaderLine)

RawTexts(ps) == [k \in 1..Len(ps) |-> ps[k].text]

StrippedTexts(ps) == [k \in 1..Len(ps) |-> strip(ps[k].text)]

\* C9 as stated: no non-blank paragraph gives the empty list; non-blank
\* paragraphs without any header give exactly one section, number 0, with
\* the preamble title, whose content is the non-blank lines themselves
\* (the raw paragraph texts) in input order.
C9_Original ==
    ppc = "returned" =>
        /\ NonBlankParas = <<>> => parsed = <<>>
        /\ (NonBlankParas # <<>> /\ HeaderParas = <<>>) =>
              /\ Len(parsed) = 1
              /\ parsed[1].number = 0
              /\ parsed[1].title = PreambleTitle
              /\ parsed[1].content = RawTexts(NonBlankParas)

\* C9 (amended): no non-blank paragraph gives the empty list; non-blank
\* paragraphs none of which is a header give exactly one section, number 0,
\* with the preamble title, whose content is the non-blank lines in input
\* order, each stripped of its leading and trailing whitespace.
C9_PreambleOnly ==
    ppc = "returned" =>
        /\ NonBlankParas = <<>> => parsed = <<>>
        /\ (NonBlankParas # <<>> /\ HeaderParas = <<>>) =>
              /\ Len(parsed) = 1
              /\ parsed[1].number = 0
              /\ parsed[1].title = PreambleTitle
              /\ parsed[1].content = StrippedTexts(NonBlankParas)

\* a returned run over three non-blank header-free paragraphs, one of them
\* with surrounding whitespace, between which a blank one was skipped
C9_Witness ==
    /\ ppc = "returned"
    /\ Len(paragraphs) = 3
    /\ HeaderParas = <<>>
    /\ Len(NonBlankParas) = 2
    /\ \E k \in 1..3 : paragraphs[k].text = <<" ", "b", " ">>
    /\ Len(parsed) = 1
    /\ Len(parsed[1].content) = 2

\* the numbers of the header lines read so far, in input order
HeaderNumbers ==
    [k \in 1..Len(HeaderParas) |->
        int(number_pattern_match(strip(HeaderParas[k].text))[1].g1)]

\* 1 when the first non-blank line is not a header, else 0
LeadingPreamble ==
    IF NonBlankParas # <<>> /\ ~IsHeaderLine(NonBlankParas[1]) THEN 1 ELSE 0

\* the sections closed so far followed by the open one
AllSections ==
    IF ppc = "returned" THEN parsed ELSE psections \o current_section

\* C10: at every point of the loop and in the returned list, the sections
\* (closed ones, then the open one) are one per header line, preceded by one
\* preamble section when the first non-blank line is not a header; they
\* carry the header numbers in encounter order, repeated and decreasing
\* numbers included; at the return the open section has been flushed.
C10_OnePerHeader ==
    /\ Len(AllSections) = Len(HeaderParas) + LeadingPreamble
    /\ \A k \in 1..Len(HeaderParas) :
          AllSections[k + LeadingPreamble].number = HeaderNumbers[k]
    /\ LeadingPreamble = 1 => AllSections[1].number = 0
    /\ ppc = "loop" => Len(current_section) = (IF NonBlankParas = <<>> THEN 0 ELSE 1)

\* a returned run with a preamble and two headers whose numbers decrease
C10_Witness ==
    /\ ppc = "returned"
    /\ Len(parsed) = 3
    /\ [k \in 1..3 |-> parsed[k].number] = <<0, 2, 1>>

-----------------------------------------------------------------------------
(* The header rule *)

\* a line starts with one or more digits followed by a period
StartsWithNumberDot(line) ==
    LET d == LeadingDigits(line)
    IN  d >= 1 /\ d < Len(line) /\ line[d + 1] = "."

\* the integer value of the leading digits of a line
StatedNumber(line) == int(SubSeq(line, 1, LeadingDigits(line)))

\* everything after the period, without the whitespace that follows it
StatedTitle(line) ==
    LET rest == Drop(line, LeadingDigits(line) + 1)
    IN  Drop(rest, LeadingSpaces(rest))

\* the sections are one per line of hs, after pre implicit sections, and
\* carry the number and the title that the functions give for the line
HeaderSectionsAre(hs, pre, number(_), title(_)) ==
    /\ Len(AllSections) = Len(hs) + pre
    /\ \A k \in 1..Len(hs) :
          /\ AllSections[k + pre].number = number(hs[k])
          /\ AllSections[k + pre].title = title(hs[k])

RawLine(p) == p.text

RawIsHeader(p) == StartsWithNumberDot(p.text)

RawNumber(p) == StatedNumber(p.text)

RawTitle(p) == StatedTitle(p.text)

\* C11 as stated, a line being the text of a paragraph: the headers are
\* exactly the lines that start with digits and a period, the number is the
\* value of the digits, the title everything after the period without the
\* whitespace that follows the period.
C11_Original ==
    HeaderSectionsAre(
        SelectSeq(paragraphs, RawIsHeader),
        IF NonBlankParas # <<>> /\ ~RawIsHeader(NonBlankParas[1])
        THEN 1 ELSE 0,
        RawNumber, RawTitle)

StrippedIsHeader(p) == StartsWithNumberDot(strip(p.text))

StrippedNumber(p) == StatedNumber(strip(p.text))

StrippedTitle(p) == UpToLineBreak(StatedTitle(strip(p.text)))

\* C11 (amended): the rule is applied to the paragraph's text without its
\* leading and trailing whitespace: the headers are exactly the paragraphs
\* whose stripped text starts with digits and a period; the number is the
\* value of the digits; the title is what follows the period, without the
\* whitespace after the period, up to the first line break of the paragraph
\* (empty when nothing follows).
C11_HeaderRule ==
    HeaderSectionsAre(
        SelectSeq(paragraphs, StrippedIsHeader),
        IF NonBlankParas # <<>> /\ ~StrippedIsHeader(NonBlankParas[1])
        THEN 1 ELSE 0,
        StrippedNumber, StrippedTitle)

\* a returned run over an indented header, a header without title and a
\* header whose title follows a blank
C11_Witness ==
    /\ ppc = "returned"
    /\ RawTexts(paragraphs) =
          << <<" ", "2", ".", "a">>, <<"1", ".">>, <<"2", ".", " ", "b">> >>
    /\ [k \in 1..3 |-> parsed[k].number] = <<2, 1, 2>>
    /\ [k \in 1..3 |-> parsed[k].title] = << <<"a">>, <<>>, <<"b">> >>

-----------------------------------------------------------------------------
(* Blank paragraphs *)

\* a text that holds nothing but whitespace
IsBlankText(t) == \A k \in 1..Len(t) : t[k] \in {" ", "\n"}

NotBlank(p) == ~IsBlankText(p.text)

\* the paragraphs read so far without the blank ones
WithoutBlanks == SelectSeq(paragraphs, NotBlank)

\* C12: no line of any section's content is blank, and the parser's state
\* and returned list are those of the input without its blank and
\* whitespace-only paragraphs, wherever these stand in the input.
C12_BlankLinesIgnored ==
    /\ \A k \in 1..Len(AllSections) :
          \A j \in 1..Len(AllSections[k].content) :
              ~IsBlankText(AllSections[k].content[j])
    /\ LET st == ParseLoop([sections |-> <<>>, current_section |-> <<>>],
                           WithoutBlanks)
       IN  IF ppc = "returned"
           THEN parsed = ParseFlush(st)
           ELSE /\ psections = st.sections
                /\ current_section = st.current_section

\* a returned run with an empty and a whitespace-only paragraph around a
\* line of text
C12_Witness ==
    /\ ppc = "returned"
    /\ RawTexts(paragraphs) = << <<" ">>, <<"a">>, <<>> >>
    /\ Len(parsed) = 1
    /\ parsed[1].content = << <<"a">> >>

-----------------------------------------------------------------------------
(* Content and formatting *)

RECURSIVE AllContent(_)
AllContent(secs) ==
    IF secs = <<>> THEN <<>>
    ELSE Head(secs).content \o AllContent(Tail(secs))

RECURSIVE AllFormatting(_)
AllFormatting(secs) ==
    IF secs = <<>> THEN <<>>
    ELSE Head(secs).formatting \o AllFormatting(Tail(secs))

\* C13: at every step of the loop and in the returned list, every section
\* has as many formatting entries as content lines, at least one; and the
\* k-th formatting entry is the run list extracted from the paragraph that
\* produced the k-th content line.
C13_ContentFormattingAligned ==
    /\ \A k \in 1..Len(AllSections) :
          /\ Len(AllSections[k].content) = Len(AllSections[k].formatting)
          /\ Len(AllSections[k].content) >= 1
    /\ AllContent(AllSections) = StrippedTexts(WithoutBlanks)
    /\ AllFormatting(AllSections) =
          [k \in 1..Len(WithoutBlanks) |->
              extract_word_formatting(WithoutBlanks[k])]

\* inside the loop, the open section holds a header of two runs, a line
\* whose run could not be read and one of a single run
C13_Witness ==
    /\ ppc = "loop"
    /\ Len(paragraphs) = 3
    /\ paragraphs[2] = UnreadableParagraph
    /\ current_section # <<>>
    /\ Len(current_section[1].content) = 3
    /\ [k \in 1..3 |-> Len(current_section[1].formatting[k])] = <<2, 0, 1>>

-----------------------------------------------------------------------------
(* text_only *)

\* each line preceded by a newline
RECURSIVE WithSeparators(_)
WithSeparators(ls) ==
    IF ls = <<>> THEN <<>>
    ELSE <<"\n">> \o Head(ls) \o WithSeparators(Tail(ls))

\* the lines with a newline between neighbours
JoinLines(ls) == IF ls = <<>> THEN <<>> ELSE Tail(WithSeparators(ls))

\* C14 as stated: for a section opened by a header, text_only is the title
\* followed by a newline and the line for each later line of the section,
\* the empty title included.
C14_Original ==
    \A k \in 1..Len(AllSections) :
        k > LeadingPreamble =>
            AllSections[k].text_only =
                AllSections[k].title
                    \o WithSeparators(Tail(AllSections[k].content))

\* C14 (amended): for a section opened by a header, text_only is the title
\* and the later lines of the section joined by newlines when the title is
\* not empty, and the later lines alone joined by newlines when the title
\* is empty: no separator precedes the first line after an empty title.
C14_TextOnly ==
    \A k \in 1..Len(AllSections) :
        k > LeadingPreamble =>
            AllSections[k].text_only =
                JoinLines((IF AllSections[k].title = <<>> THEN <<>>
                           ELSE <<AllSections[k].title>>)
                          \o Tail(AllSections[k].content))

\* a returned run of a header without title followed by two lines
C14_Witness ==
    /\ ppc = "returned"
    /\ Len(parsed) = 1
    /\ parsed[1].number = 1
    /\ Len(parsed[1].content) = 3
    /\ parsed[1].title = <<>>
    /\ parsed[1].text_only = <<"a", "\n", "b">>

-----------------------------------------------------------------------------
(* Number 0 *)

\* C15 as stated: a section has number 0 only if it is the implicit section
\* opened by text that precedes every header, hence the first of the list.
C15_Original ==
    \A k \in 1..Len(AllSections) :
        AllSections[k].number = 0 => (k = 1 /\ LeadingPreamble = 1)

-----------------------------------------------------------------------------
(* Fill copy *)

FormatCopied ==
    shape_op \in {"copy_shape_formatting", "legacy_copy_shape_formatting"}

\* C16 as stated: after a shape-format copy from any source shape, a solid
\* source fill has made the target solid with the same colour; a gradient,
\* pattern, picture, unknown or unreadable source fill has left the target
\* with no fill; and the target never has one of the unsupported kinds.
C16_Original ==
    FormatCopied =>
        /\ shape_source.fill.type = "solid" =>
              shape_out.fill = Fill("solid", shape_source.fill.color)
        /\ shape_source.fill.type \in OtherFillTypes =>
              shape_out.fill = NoFill
        /\ shape_out.fill.type \notin OtherFillTypes

\* a source shape that the clone cannot reproduce faithfully: its fill is
\* of a kind that degrades to no fill, or it is a picture whose image
\* cannot be read
Degrades(shape) ==
    /\ shape.kind # "placeholder"
    /\ \/ shape.fill.type \in OtherFillTypes
       \/ shape.kind = "picture" /\ shape.payload # "ok"

\* no section failed, and some section after the first got a clone of a
\* template slide that holds such a shape
DegradationOccurred ==
    /\ Len(fault) >= 2
    /\ \A n \in 1..Len(fault) : fault[n] = "none"
    /\ \E k \in 1..Len(TemplateShapes) : Degrades(TemplateShapes[k])

\* C17 as stated: a conversion in which a fill was degraded or a shape was
\* skipped while cloning reports it: format_issues of the result is not
\* empty.
C17_Original ==
    (pc = "done" /\ result[1].success /\ DegradationOccurred) =>
        result[1].format_issues # <<>>

-----------------------------------------------------------------------------
(* The clone loop *)

Cloning == shape_op \in {"clone", "cloned"}

\* the kinds of shape that the clone makes anew on the target
Reproducible(shape) ==
    \/ shape.kind \in {"textbox", "autoshape", "table"}
    \/ shape.kind = "picture" /\ shape.payload = "ok"

\* the source shapes visited so far
Visited == SubSeq(shape_source, 1, cursor)

\* the shapes made on the target so far: those after the shapes that the
\* target had when the loop began
Created == SubSeq(shape_out, Len(shape_target) + 1, Len(shape_out))

\* C18: the loop visits the source shapes in order and goes on to the end
\* whatever a shape's copy did; after each iteration the shapes made on the
\* target are one per visited source shape of a kind that is reproduced
\* (a picture whose image cannot be read and shapes of other kinds add
\* none), in the order of their source shapes, with their kind and
\* rectangle; the shapes that the target had keep their place.
C18_CloneOrder ==
    Cloning =>
        /\ cursor <= Len(shape_source)
        /\ shape_op = "cloned" => cursor = Len(shape_source)
        /\ Len(shape_out) >= Len(shape_target)
        /\ \A k \in 1..Len(shape_target) :
              /\ shape_out[k].kind = shape_target[k].kind
              /\ shape_out[k].ph = shape_target[k].ph
        /\ LET reproduced == SelectSeq(Visited, Reproducible)
           IN  /\ Len(Created) = Len(reproduced)
               /\ \A k \in 1..Len(Created) :
                     /\ Created[k].kind = reproduced[k].kind
                     /\ Created[k].geom = reproduced[k].geom

\* a finished clone of a textbox, a picture whose image cannot be read and
\* an autoshape: the two shapes made are the textbox and the autoshape
C18_Witness ==
    /\ shape_op = "cloned"
    /\ [k \in 1..Len(shape_source) |-> shape_source[k].kind] =
          <<"textbox", "picture", "autoshape">>
    /\ shape_source[2].payload = "unreadable"
    /\ [k \in 1..Len(Created) |-> Created[k].kind] = <<"textbox", "autoshape">>

-----------------------------------------------------------------------------
(* Table copy *)

\* C19 as stated: the copy writes exactly the cells below both row counts
\* and both column counts: each of them has the text of the source cell
\* afterwards, every other cell of the target is as it was, and the target
\* keeps its dimensions.
C19_Original ==
    shape_op = "copy_table_content" =>
        /\ Len(shape_out) = Len(shape_target)
        /\ \A r \in 1..Len(shape_target) :
              /\ Len(shape_out[r]) = Len(shape_target[r])
              /\ \A c \in 1..Len(shape_target[r]) :
                    shape_out[r][c] =
                        IF r <= Len(shape_source) /\ c <= Len(shape_source[r])
                        THEN shape_source[r][c]
                        ELSE shape_target[r][c]

-----------------------------------------------------------------------------
(* The primary shape of the injection *)

\* the template slide as the injection of section n sees it: the slide
\* itself for the first section, the first slide of the deck afterwards
TemplateAt(n) == IF n = 1 THEN TemplateShapes ELSE deck[1].shapes

\* the shapes of the target slide of section n when its injection begins
BeforeInjection(n) ==
    IF n = 1 THEN TemplateShapes
    ELSE _copy_slide_completely(deck[1].shapes, add_slide(layout).shapes)

\* the slide has the shapes it had, and then a textbox that holds the text
\* of section n, at the rectangle (and with the solid fill) of the first
\* text shape of the template, or at the default rectangle when the
\* template has no text shape
Synthesized(before, after, template, n) ==
    LET tts == TextShapes(template, 1)
        box == after[Len(after)]
    IN  /\ Len(after) = Len(before) + 1
        /\ SubSeq(after, 1, Len(before)) = before
        /\ box.kind = "textbox"
        /\ box.text = RenderedText(n)
        /\ IF tts = <<>> THEN box.geom = "default"
           ELSE /\ box.geom = template[tts[1]].geom
                /\ (template[tts[1]].fill.type = "solid"
                       /\ template[tts[1]].fill.color \in RgbColors)
                     => box.fill = template[tts[1]].fill

\* C20: for every section whose iteration raised nothing, the text of the
\* section is in the first text-capable shape that the target slide had
\* when the injection began; when it had none, a textbox was added for it,
\* made from the template's first text-capable shape, or at the default
\* rectangle when the template has none. When the loop was entered and no
\* iteration raised, the function returns success = true with
\* slides_created = N and a slide for every section, whatever text shapes
\* the template has.
C20_PrimaryShape ==
    /\ \A j \in 1..Len(deck) :
          LET n == deck[j].target_of
          IN  (n >= 1 /\ fault[n] = "none") =>
                  LET before == BeforeInjection(n)
                      ts == TextShapes(before, 1)
                  IN  IF ts # <<>>
                      THEN /\ Len(deck[j].shapes) = Len(before)
                           /\ deck[j].shapes[ts[1]].text = RenderedText(n)
                      ELSE Synthesized(before, deck[j].shapes,
                                       TemplateAt(n), n)
    /\ (Returned /\ InTrace("cleanup")
           /\ \A n \in 1..Len(fault) : fault[n] = "none") =>
          /\ rresult[1].success
          /\ rresult[1].slides_created = N
          /\ \A n \in 1..N : \E j \in 1..Len(deck) : deck[j].target_of = n

\* a finished conversion of two sections on a template whose only text
\* shape is a placeholder that the layout does not have: the slide of
\* section 2 had no shape, and got a textbox at the placeholder's rectangle
C20_Witness ==
    /\ pc = "done"
    /\ result[1].success
    /\ N = 2
    /\ fault = <<"none", "none">>
    /\ BeforeInjection(2) = <<>>
    /\ \E j \in 1..Len(deck) :
          /\ deck[j].target_of = 2
          /\ Len(deck[j].shapes) = 1
          /\ deck[j].shapes[1].kind = "textbox"
          /\ deck[j].shapes[1].geom = "B"
          /\ deck[j].shapes[1].text = RenderedText(2)

-----------------------------------------------------------------------------
(* The other text shapes of a generated slide *)

\* the runs of a text frame, paragraph after paragraph
RECURSIVE RunsIn(_)
RunsIn(text) ==
    IF text = <<>> THEN <<>> ELSE Head(text) \o RunsIn(Tail(text))

HasTemplateText(shape) ==
    \E k \in 1..Len(RunsIn(shape.text)) : RunsIn(shape.text)[k].src = "template"

\* the slides whose section's loop iteration raised nothing
Injected(j) ==
    /\ deck[j].target_of # 0
    /\ deck[j].target_of <= Len(fault)
    /\ fault[deck[j].target_of] = "none"

\* C21: on the slide of a section whose injection succeeded there is a
\* text-capable shape, every text-capable shape after the first (the
\* primary shape) has empty text, and no text-capable shape holds text of
\* the template.
C21_OthersCleared ==
    \A j \in 1..Len(deck) :
        Injected(j) =>
            LET shapes == deck[j].shapes
                text_shapes == TextShapes(shapes, 1)
            IN  /\ text_shapes # <<>>
                /\ \A k \in 2..Len(text_shapes) :
                      shapes[text_shapes[k]].text = EmptyText
                /\ \A k \in 1..Len(text_shapes) :
                      ~HasTemplateText(shapes[text_shapes[k]])

\* a finished conversion whose template slide had two text shapes with
\* text, and whose second section was injected into its clone
C21_Witness ==
    /\ pc = "done"
    /\ template_file # <<>>
    /\ Len(TextShapes(TemplateShapes, 1)) = 2
    /\ \A k \in 1..2 : HasTemplateText(TemplateShapes[k])
    /\ \E j \in 2..Len(deck) :
          /\ Injected(j)
          /\ Len(TextShapes(deck[j].shapes, 1)) = 2

-----------------------------------------------------------------------------
(* Text-frame copy *)

\* C22 as stated: after the copy the target has as many paragraphs as the
\* source, and its k-th paragraph holds the runs of the k-th source
\* paragraph in order, also when earlier source paragraphs are empty.
C22_Original ==
    shape_op = "copy_text_frame" =>
        /\ Len(shape_out) = Len(shape_source)
        /\ \A k \in 1..Len(shape_source) : shape_out[k] = shape_source[k]

-----------------------------------------------------------------------------
(* Outline and rotation copy *)

\* C23 as stated: after FormatHandler's shape-format copy between two
\* shapes that have an outline, a source width that is zero, not set or
\* unreadable has left the target's width explicitly zero, and a positive
\* source width has been copied together with the colour.
C23_Original ==
    (shape_op = "copy_shape_formatting"
        /\ shape_source.line.width # "absent"
        /\ shape_target.line.width # "absent") =>
        IF shape_source.line.width \in PositiveWidths
        THEN shape_out.line = shape_source.line
        ELSE shape_out.line.width = "zero"

\* C24 as stated: after a shape-format copy, by either variant, the
\* target's rotation is the source's.
C24_Original ==
    FormatCopied => shape_out.rotation = shape_source.rotation

-----------------------------------------------------------------------------
(* Basic mode *)

\* the injection is over, or only its accounting is left
Rendered == render_pc \in {"return", "done"}

\* the last pass entered was basic mode, and it raised nothing
BasicCompleted ==
    Rendered /\ modes # <<>> /\ modes[Len(modes)] = "basic"

\* title_text as the claim gives it
StatedTitleText(sec) ==
    IF sec.number = 0 THEN sec.title
    ELSE str(sec.number) \o <<".", " ">> \o sec.title

\* body_text as the claim gives it
StatedBodyText(sec) ==
    LET body == IF Len(sec.content) = 1 THEN sec.text_only
                ELSE JoinLines(Tail(sec.content))
    IN  IF IsBlankText(body) THEN StatedTitleText(sec) ELSE body

NotBlankLine(line) == ~IsBlankText(line)

\* the text that basic mode writes, as the claim gives it
StatedBasicText(sec) ==
    LET whole == IF StatedBodyText(sec) = StatedTitleText(sec)
                 THEN StatedTitleText(sec)
                 ELSE StatedTitleText(sec) \o <<"\n">> \o StatedBodyText(sec)
    IN  JoinLines(SelectSeq(split(whole), NotBlankLine))

\* C25: when basic mode has completed, the text of the primary shape is
\* the non-blank lines of title_text alone when body_text equals it, and
\* of title_text, a line break and body_text otherwise, with title_text
\* and body_text as the claim defines them.
C25_BasicText ==
    BasicCompleted =>
        shape_text(main_text_shape) = StatedBasicText(render_section[1])

\* basic mode has rendered a section numbered 0 with an empty title and a
\* second line: the blank first line of the joined text was filtered out
C25_Witness ==
    /\ render_pc = "done"
    /\ modes = <<"basic">>
    /\ render_section[1].number = 0
    /\ render_section[1].title = <<>>
    /\ render_section[1].content = << <<"0", ".">>, <<"a", " ", "b">> >>
    /\ shape_text(main_text_shape) = <<"a", " ", "b">>

-----------------------------------------------------------------------------
(* The choice of the mode and the fallback *)

FormattedEntered == modes # <<>> /\ modes[1] = "formatted"

FormattedRaised ==
    Len(modes) >= 2 /\ modes[1] = "formatted" /\ modes[2] = "raise"

\* C26: the formatted pass is entered exactly when the section's
\* formatting is not empty; when it ends without raising, the primary
\* shape has one paragraph per content line; a section without formatting
\* is rendered by basic mode; and when the formatted pass raises, at its
\* beginning or after any number of lines and runs, basic mode is run,
\* and once it has completed the primary shape holds exactly what basic
\* mode writes: nothing of the formatted pass is left.
C26_ModeAndFallback ==
    render_section # <<>> =>
        /\ FormattedEntered <=> render_section[1].formatting # <<>>
        /\ (Rendered /\ modes = <<"formatted">>) =>
              Len(main_text_shape) = Len(render_section[1].content)
        /\ (Rendered /\ ~FormattedEntered) => modes[1] = "basic"
        /\ (Rendered /\ FormattedRaised) =>
              /\ Len(modes) >= 3
              /\ modes[3] = "basic"
        /\ (BasicCompleted /\ FormattedRaised) =>
              main_text_shape = text_setter(StatedBasicText(render_section[1]))

\* the formatted pass raised in its second line, after a run of that line
\* had been made, and basic mode has rendered the section
C26_Witness ==
    /\ render_pc = "done"
    /\ modes = <<"formatted", "raise", "basic">>
    /\ content_idx = 1
    /\ Len(render_section[1].content) = 2
    /\ Len(RunsFor(render_section[1].formatting[2])) >= 1
    /\ render_created = 1

-----------------------------------------------------------------------------
(* Content kept by basic mode *)

RECURSIVE IsSubsequence(_, _)
IsSubsequence(a, b) ==
    IF a = <<>> THEN TRUE
    ELSE IF b = <<>> THEN FALSE
    ELSE IF Head(a) = Head(b) THEN IsSubsequence(Tail(a), Tail(b))
    ELSE IsSubsequence(a, Tail(b))

\* the lines of the content of a section: each content line, split where
\* it holds a line break, without blank lines; the header line of a
\* numbered section counts in the form "<number>. <title>"
RECURSIVE LinesOfAll(_)
LinesOfAll(content) ==
    IF content = <<>> THEN <<>>
    ELSE SelectSeq(split(Head(content)), NotBlankLine)
             \o LinesOfAll(Tail(content))

ContentLines(sec) ==
    IF sec.number = 0 THEN LinesOfAll(sec.content)
    ELSE <<StatedTitleText(sec)>> \o Tail(LinesOfAll(sec.content))

\* C27 as stated: when basic mode has completed, every line of the
\* section's content is in the text of the primary shape, in content
\* order, for sections numbered 0 as well.
C27_Original ==
    BasicCompleted =>
        IsSubsequence(ContentLines(render_section[1]),
                      split(shape_text(main_text_shape)))

-----------------------------------------------------------------------------
(* Sections counted as created *)

\* both passes raised, or basic mode raised for a section without
\* formatting
RenderingFailed ==
    \E k \in 1..Len(modes) - 1 : modes[k] = "basic" /\ modes[k + 1] = "raise"

\* C28 as stated: a section that is counted as created does not show the
\* fixed error text, and a section whose rendering failed in every mode
\* tried is recorded as skipped.
C28_Original ==
    render_pc = "done" =>
        /\ render_created = 1 => shape_text(main_text_shape) # ErrorText
        /\ RenderingFailed => render_skipped # <<>>

-----------------------------------------------------------------------------
(* Text kept by formatted mode *)

\* the texts of the extracted runs of a line, concatenated
RECURSIVE AllRunTexts(_)
AllRunTexts(formatting_data) ==
    IF formatting_data = <<>> THEN <<>>
    ELSE Head(formatting_data).text \o AllRunTexts(Tail(formatting_data))

\* C30 as stated: when the formatted pass has ended without raising, the
\* text of paragraph k of the primary shape is the concatenation of all
\* run texts of content line k.
C30_Original ==
    (Rendered /\ modes = <<"formatted">>) =>
        \A k \in 1..Len(render_section[1].content) :
            paragraph_text(main_text_shape[k]) =
                AllRunTexts(render_section[1].formatting[k])

-----------------------------------------------------------------------------
(* The slide of a skipped section *)

\* the slides that the loop has appended for section n
AppendedFor(n) ==
    { j \in 1..Len(deck) : deck[j].origin = "added" /\ deck[j].target_of = n }

\* C29 as stated: once the iteration of a section after the first is over,
\* however it ended, exactly one slide was appended to the deck for it.
C29_Original ==
    InTrace("cleanup") =>
        \A n \in 2..Len(fault) : Cardinality(AppendedFor(n)) = 1

====
